---------------------------- MODULE Spec2Model ----------------------------
(***************************************************************************)
(* A model of src/chess.py: class ProcChessComPgnFile.                     *)
(*                                                                         *)
(* Text is a sequence of one-character strings.  Positions are Python's    *)
(* 0-based indices, so that the arithmetic of the scanner (start, end,     *)
(* the value -1 returned by str.find, negative slice bounds) is the        *)
(* arithmetic of the source.                                               *)
(*                                                                         *)
(* A datetime.time is a record [hour, minute, second, microsecond].  A     *)
(* float number of seconds (timedelta.total_seconds()) is a record         *)
(* [sec, us] with sec the floor of the value and us in 0..999999, its      *)
(* microseconds above the floor: timedelta keeps exactly this normal form. *)
(***************************************************************************)
EXTENDS Integers, Sequences, FiniteSets, TLC

VARIABLES
    input,              \* the game record the file was written from (never read by the code)
    raw,                \* content of the file at path_pgn
    pc,                 \* position of the constructor / "ready" once it returned / "error"
    err,                \* the exception that ended the constructor, "" when none
    attrs,              \* names of the attributes that exist on the object
    pgn,                \* self.pgn
    secs_start,         \* self.secs_start
    secs_incr,          \* self.secs_incr
    hist_clock_white,   \* self.hist_clock_white
    hist_clock_black,   \* self.hist_clock_black
    num_moves_white,    \* self.num_moves_white
    num_moves_black,    \* self.num_moves_black
    move_id,            \* local move_id of _extract_hist_clock
    start,              \* local start of _extract_hist_clock
    visited,            \* positions at which the scan found a start marker, in order
    time2moves_white,   \* self.time2moves_white
    time2moves_black,   \* self.time2moves_black
    hist_mtime_white,   \* self.hist_mtime_white
    hist_mtime_black,   \* self.hist_mtime_black
    out                 \* what the last print operation wrote to stdout

vars == << input, raw, pc, err, attrs, pgn, secs_start, secs_incr,
           hist_clock_white, hist_clock_black, num_moves_white, num_moves_black,
           move_id, start, visited, time2moves_white, time2moves_black,
           hist_mtime_white, hist_mtime_black, out >>

---------------------------------------------------------------------------
(* Bounds of the model. *)

\* clock annotations in a game record
MaxBlocks == 4
\* characters of a time-control text drawn from TcChars
MaxTcLen == 4

---------------------------------------------------------------------------
(* Python's str operations. *)

Min(S) == CHOOSE x \in S : \A y \in S : x <= y

Max(S) == CHOOSE x \in S : \A y \in S : x >= y

\* a slice bound i of a text of length n, as s[i:] clamps it
Clamp(i, n) == IF i < 0 THEN (IF n + i < 0 THEN 0 ELSE n + i)
               ELSE (IF i > n THEN n ELSE i)

\* s[a:b]
Slice(s, a, b) ==
    LET n  == Len(s)
        lo == Clamp(a, n)
        hi == Clamp(b, n)
    IN  IF lo >= hi THEN << >> ELSE SubSeq(s, lo + 1, hi)

\* s.find(sub, from): the lowest index >= from at which sub occurs, else -1
Find(s, sub, from) ==
    LET n     == Len(s)
        f     == IF from < 0 THEN (IF n + from < 0 THEN 0 ELSE n + from) ELSE from
        cands == { i \in f..(n - Len(sub)) : SubSeq(s, i + 1, i + Len(sub)) = sub }
    IN  IF cands = {} THEN -1 ELSE Min(cands)

\* str.lower() on one character (the upper-case letters a game record holds)
LowerChar(c) ==
    CASE c = "T" -> "t"
      [] c = "C" -> "c"
      [] OTHER   -> c

\* f.read().replace('\n', ' ').lower()
Normalize(s) == [ i \in 1..Len(s) |-> IF s[i] = "\n" THEN " " ELSE LowerChar(s[i]) ]

RECURSIVE RemoveChar(_, _)
\* s.replace(c, '')
RemoveChar(s, c) ==
    IF s = << >> THEN << >>
    ELSE IF Head(s) = c THEN RemoveChar(Tail(s), c)
    ELSE << Head(s) >> \o RemoveChar(Tail(s), c)

RECURSIVE Split(_, _)
\* s.split(c)
Split(s, c) ==
    LET i == Find(s, << c >>, 0)
    IN  IF i = -1 THEN << s >>
        ELSE << Slice(s, 0, i) >> \o Split(Slice(s, i + 1, Len(s)), c)

Digits == { "0", "1", "2", "3", "4", "5", "6", "7", "8", "9" }

DigitVal(c) ==
    CASE c = "0" -> 0 [] c = "1" -> 1 [] c = "2" -> 2 [] c = "3" -> 3
      [] c = "4" -> 4 [] c = "5" -> 5 [] c = "6" -> 6 [] c = "7" -> 7
      [] c = "8" -> 8 [] c = "9" -> 9

IsDigits(s) == s # << >> /\ \A i \in 1..Len(s) : s[i] \in Digits

RECURSIVE DecVal(_)
\* the value of a run of decimal digits
DecVal(s) == IF s = << >> THEN 0
             ELSE 10 * DecVal(SubSeq(s, 1, Len(s) - 1)) + DigitVal(s[Len(s)])

RECURSIVE Strip(_)
\* s.strip()
Strip(s) ==
    IF s = << >> THEN s
    ELSE IF Head(s) = " " THEN Strip(Tail(s))
    ELSE IF s[Len(s)] = " " THEN Strip(SubSeq(s, 1, Len(s) - 1))
    ELSE s

\* int(s): surrounding whitespace stripped, an optional sign, then digits, single
\* underscores allowed between digits.  [ok |-> FALSE] stands for ValueError.
PyInt(s) ==
    LET t      == Strip(s)
        signed == t # << >> /\ Head(t) \in { "-", "+" }
        body   == IF signed THEN Tail(t) ELSE t
        n      == Len(body)
        wellformed ==
            /\ n > 0
            /\ \A i \in 1..n : body[i] \in Digits \cup { "_" }
            /\ body[1] # "_" /\ body[n] # "_"
            /\ \A i \in 1..(n - 1) : ~(body[i] = "_" /\ body[i + 1] = "_")
        v      == DecVal(RemoveChar(body, "_"))
    IN  IF ~wellformed THEN [ok |-> FALSE, val |-> 0]
        ELSE [ok |-> TRUE, val |-> IF signed /\ Head(t) = "-" THEN 0 - v ELSE v]

---------------------------------------------------------------------------
(* Class constants. *)

TOKEN_START_TIMECTRL == << "[", "t", "i", "m", "e", "c", "o", "n", "t", "r", "o", "l", " " >>

TOKEN_END_TIMECTRL == << "]" >>

TOKEN_START_CLOCK == << "{", "[", "%", "c", "l", "k", " " >>

TOKEN_END_CLOCK == << "]", "}" >>

CLOCK_FORMATS == << "%H:%M:%S.%f", "%H:%M:%S" >>

---------------------------------------------------------------------------
(* datetime.datetime.strptime(clock_desc, fmt).time()                      *)

\* %H: the regex 2[0-3]|[0-1]\d|\d followed by the literal ':'
HourField(s) ==
    /\ IsDigits(s)
    /\ Len(s) \in 1..2
    /\ Len(s) = 2 => DecVal(s) <= 23

\* %M: [0-5]\d|\d;  %S: 6[0-1]|[0-5]\d|\d
MinuteField(s) ==
    /\ IsDigits(s)
    /\ Len(s) \in 1..2
    /\ Len(s) = 2 => DecVal(s) <= 59

SecondField(s) ==
    /\ IsDigits(s)
    /\ Len(s) \in 1..2
    /\ Len(s) = 2 => DecVal(s) <= 61

\* %f: [0-9]{1,6}
FractionField(s) == IsDigits(s) /\ Len(s) \in 1..6

RECURSIVE PadRight(_, _)
\* s += "0" * (n - len(s))
PadRight(s, n) == IF Len(s) >= n THEN s ELSE PadRight(Append(s, "0"), n)

NoTime == [hour |-> 0, minute |-> 0, second |-> 0, microsecond |-> 0]

\* One format tried on clock_desc.  [ok |-> FALSE] stands for ValueError: the regex
\* does not match, unconverted data remains, or datetime rejects second 60 or 61.
Strptime(clock_desc, fmt) ==
    LET n     == Len(clock_desc)
        c1    == Find(clock_desc, << ":" >>, 0)
        c2    == IF c1 = -1 THEN -1 ELSE Find(clock_desc, << ":" >>, c1 + 1)
        hTxt  == Slice(clock_desc, 0, c1)
        mTxt  == Slice(clock_desc, c1 + 1, c2)
        rest  == Slice(clock_desc, c2 + 1, n)
        dot   == Find(rest, << "." >>, 0)
        frac  == fmt = "%H:%M:%S.%f"
        sTxt  == IF frac THEN Slice(rest, 0, dot) ELSE rest
        fTxt  == Slice(rest, dot + 1, Len(rest))
        match == /\ c1 # -1 /\ c2 # -1
                 /\ HourField(hTxt) /\ MinuteField(mTxt) /\ SecondField(sTxt)
                 /\ frac => (dot # -1 /\ FractionField(fTxt))
    IN  IF ~match THEN [ok |-> FALSE, t |-> NoTime]
        ELSE IF DecVal(sTxt) > 59 THEN [ok |-> FALSE, t |-> NoTime]
        ELSE [ok |-> TRUE,
              t  |-> [hour        |-> DecVal(hTxt),
                      minute      |-> DecVal(mTxt),
                      second      |-> DecVal(sTxt),
                      microsecond |-> IF frac THEN DecVal(PadRight(fTxt, 6)) ELSE 0]]

RECURSIVE TryFormats(_, _)
TryFormats(clock_desc, k) ==
    IF k > Len(CLOCK_FORMATS) THEN [ok |-> FALSE, t |-> NoTime]
    ELSE LET r == Strptime(clock_desc, CLOCK_FORMATS[k])
         IN  IF r.ok THEN r ELSE TryFormats(clock_desc, k + 1)

\* _build_time_by_clock: the first format that parses; ValueError when none does
BuildTimeByClock(clock_desc) == TryFormats(clock_desc, 1)

---------------------------------------------------------------------------
(* Date and time arithmetic of _extract_time_per_move.  A datetime of the  *)
(* date `today` is [sec, us]: seconds since today's midnight (beyond one   *)
(* day or below zero once a timedelta was added) and microseconds.         *)

\* datetime.time(hour=h, minute=m, second=s) accepts hour 0..23 only
HourInRange(h) == h >= 0 /\ h <= 23

\* h, r = divmod(secs, 3600); m, s = divmod(r, 60); combine(today, time(h, m, s))
DtStart(secs) == [sec |-> ((secs \div 3600) * 3600) + (((secs % 3600) \div 60) * 60)
                          + ((secs % 3600) % 60),
                  us  |-> 0]

\* datetime.datetime.combine(today, clock_time)
Combine(clock_time) ==
    [sec |-> (clock_time.hour * 3600) + (clock_time.minute * 60) + clock_time.second,
     us  |-> clock_time.microsecond]

\* dt + datetime.timedelta(seconds=n)
AddSeconds(dt, n) == [sec |-> dt.sec + n, us |-> dt.us]

\* (a - b).total_seconds()
TotalSeconds(a, b) ==
    IF a.us >= b.us THEN [sec |-> a.sec - b.sec, us |-> a.us - b.us]
    ELSE [sec |-> a.sec - b.sec - 1, us |-> (a.us - b.us) + 1000000]

\* math.ceil(x)
Ceil(x) == IF x.us > 0 THEN x.sec + 1 ELSE x.sec

\* start += td_incr; end = combine(today, clock_time); (start - end).total_seconds()
MoveTime(start_dt, incr, clock_time) ==
    TotalSeconds(AddSeconds(start_dt, incr), Combine(clock_time))

EmptyDict == [ k \in {} |-> << >> ]

\* time2moves[key] = [move]: the bucket is replaced, not extended
BucketOverwrite(time2moves, key, move) ==
    [ k \in (DOMAIN time2moves) \cup { key } |->
        IF k = key THEN << move >> ELSE time2moves[k] ]

\* time2moves[key].append(move) on a defaultdict(list)
BucketAppend(time2moves, key, move) ==
    IF key \in DOMAIN time2moves
    THEN [ time2moves EXCEPT ![key] = Append(@, move) ]
    ELSE [ k \in (DOMAIN time2moves) \cup { key } |->
             IF k = key THEN << move >> ELSE time2moves[k] ]

RECURSIVE SideLoop(_, _, _, _, _, _)
\* the inner loop over enumerate(hclock, 1), from move k on
SideLoop(hclock, k, start_dt, incr, time2moves, hmtime) ==
    IF k > Len(hclock) THEN [time2moves |-> time2moves, hmtime |-> hmtime]
    ELSE LET move_time == MoveTime(start_dt, incr, hclock[k])
         IN  SideLoop(hclock, k + 1, Combine(hclock[k]), incr,
                      BucketAppend(time2moves, Ceil(move_time), k),
                      Append(hmtime, move_time))

\* one pass of the outer loop: a side's buckets and move times
TimePerMove(hclock, start_secs, incr) ==
    SideLoop(hclock, 1, DtStart(start_secs), incr, EmptyDict, << >>)

---------------------------------------------------------------------------
(* Formatting. *)

RECURSIVE NatStr(_)
NatStr(n) ==
    LET d == << "0", "1", "2", "3", "4", "5", "6", "7", "8", "9" >>[(n % 10) + 1]
    IN  IF n < 10 THEN << d >> ELSE Append(NatStr(n \div 10), d)

\* str(n) of an int
DecStr(n) == IF n < 0 THEN << "-" >> \o NatStr(0 - n) ELSE NatStr(n)

RECURSIVE PadLeft(_, _)
\* '%0<w>d'
PadLeft(s, w) == IF Len(s) >= w THEN s ELSE PadLeft(<< "0" >> \o s, w)

\* str(datetime.time): HH:MM:SS, and .ffffff when microsecond is not 0
TimeStr(t) ==
    PadLeft(NatStr(t.hour), 2) \o << ":" >> \o PadLeft(NatStr(t.minute), 2)
      \o << ":" >> \o PadLeft(NatStr(t.second), 2)
      \o (IF t.microsecond = 0 THEN << >>
          ELSE << "." >> \o PadLeft(NatStr(t.microsecond), 6))

\* _fmt_time_per_move: h, r = divmod(seconds, 3600); m, s = divmod(r, 60);
\* the parts that are not zero, the seconds rounded up
FmtTimePerMove(seconds) ==
    LET h    == seconds.sec \div 3600
        r    == seconds.sec % 3600
        m    == r \div 60
        sInt == r % 60
        hPart == IF h # 0 THEN DecStr(h) \o << "h", "r" >> ELSE << >>
        mPart == IF m # 0 THEN DecStr(m) \o << "m", "i", "n" >> ELSE << >>
        sPart == IF sInt # 0 \/ seconds.us # 0
                 THEN DecStr(Ceil([sec |-> sInt, us |-> seconds.us])) \o << "s", "e", "c" >>
                 ELSE << >>
    IN  hPart \o mPart \o sPart

\* an int passed where a float number of seconds is expected
Whole(n) == [sec |-> n, us |-> 0]

---------------------------------------------------------------------------
(* The game records the model is run on.  A record is written as a file    *)
(* the way Chess.com writes one: a [TimeControl "..."] tag line, then the  *)
(* moves, each followed by its clock annotation {[%clk H:MM:SS[.f]]}.      *)

SeqsUpTo(S, n) == UNION { [ 1..k -> S ] : k \in 0..n }

RECURSIVE StripTrailingZeros(_)
StripTrailingZeros(s) ==
    IF s # << >> /\ s[Len(s)] = "0" THEN StripTrailingZeros(SubSeq(s, 1, Len(s) - 1))
    ELSE s

\* a clock reading as the annotation shows it
ClockText(t) ==
    NatStr(t.hour) \o << ":" >> \o PadLeft(NatStr(t.minute), 2)
      \o << ":" >> \o PadLeft(NatStr(t.second), 2)
      \o (IF t.microsecond = 0 THEN << >>
          ELSE << "." >> \o StripTrailingZeros(PadLeft(NatStr(t.microsecond), 6)))

Reading(h, m, s2, us) == [hour |-> h, minute |-> m, second |-> s2, microsecond |-> us]

\* a well-formed annotation of reading t
GoodBlock(t) == [text |-> ClockText(t), wf |-> TRUE, t |-> t]

\* an annotation whose text is no clock reading
BadBlock(text) == [text |-> text, wf |-> FALSE, t |-> NoTime]

Readings == { Reading(0, 2, 59, 0), Reading(0, 2, 58, 500000), Reading(0, 0, 0, 0) }

ScanBlocks == { GoodBlock(Reading(0, 2, 59, 0)), GoodBlock(Reading(0, 2, 58, 500000)),
                BadBlock(<< "x" >>) }

\* what follows a last start marker that no end marker closes
TailTexts == { << "0", ":", "0", "2", ":", "5", "9", "]" >>,
               << "0", ":", "0", "2", ":", "5", "9" >>,
               << "0", ":", "0", "2", ":", "5" >>,
               << >> }

NoTail == [present |-> FALSE, text |-> << >>]

TcChars == { "0", "1", "6", "+", "-" }

TimeControlTag(desc) == [present |-> TRUE, closed |-> TRUE, desc |-> desc]

TC_180_2 == << "1", "8", "0", "+", "2" >>

GameTimeControls ==
    { TimeControlTag(TC_180_2),
      TimeControlTag(<< "1", "0" >>),
      TimeControlTag(<< "0" >>),
      TimeControlTag(<< "8", "6", "4", "0", "0" >>),
      TimeControlTag(<< "1", "+", "2", "+", "3" >>),
      [present |-> TRUE, closed |-> FALSE, desc |-> << "1", "0" >>],
      [present |-> FALSE, closed |-> FALSE, desc |-> << >>] }

TagLine(tc) ==
    IF ~tc.present THEN << >>
    ELSE << "[", "T", "i", "m", "e", "C", "o", "n", "t", "r", "o", "l", " ", "\"" >>
           \o tc.desc \o << "\"" >>
           \o (IF tc.closed THEN << "]" >> ELSE << >>) \o << "\n" >>

RECURSIVE MoveText(_, _)
MoveText(blocks, k) ==
    IF k > Len(blocks) THEN << >>
    ELSE << "e", "4", " " >> \o TOKEN_START_CLOCK \o blocks[k].text \o TOKEN_END_CLOCK
           \o << " " >> \o MoveText(blocks, k + 1)

FileContent(in) ==
    TagLine(in.tc) \o MoveText(in.blocks, 1)
      \o (IF in.tail.present THEN << "e", "4", " " >> \o TOKEN_START_CLOCK \o in.tail.text
          ELSE << >>)

\* any time-control text, one move
TimeControlInputs ==
    { [tc |-> TimeControlTag(d), blocks |-> << GoodBlock(Reading(0, 0, 1, 0)) >>,
       tail |-> NoTail] : d \in SeqsUpTo(TcChars, MaxTcLen) }

\* games: a time control and well-formed annotations
GameInputs ==
    { [tc |-> tc, blocks |-> b, tail |-> NoTail] :
        tc \in GameTimeControls, b \in SeqsUpTo({ GoodBlock(t) : t \in Readings }, MaxBlocks) }

\* damaged records: annotations that are no reading, a last annotation cut short
ScanInputs ==
    { [tc |-> TimeControlTag(TC_180_2), blocks |-> b, tail |-> tl] :
        b \in SeqsUpTo(ScanBlocks, MaxBlocks),
        tl \in { NoTail } \cup { [present |-> TRUE, text |-> x] : x \in TailTexts } }

Inputs == TimeControlInputs \cup GameInputs \cup ScanInputs

---------------------------------------------------------------------------
(* The constructor. *)

NoOutput == [op |-> "", white |-> FALSE, exc |-> "", lines |-> << >>]

Init ==
    /\ input \in Inputs
    /\ raw = FileContent(input)
    /\ pc = "load"
    /\ err = ""
    /\ attrs = {}
    /\ pgn = << >>
    /\ secs_start = 0
    /\ secs_incr = 0
    /\ hist_clock_white = << >>
    /\ hist_clock_black = << >>
    /\ num_moves_white = 0
    /\ num_moves_black = 0
    /\ move_id = 0
    /\ start = 0
    /\ visited = << >>
    /\ time2moves_white = EmptyDict
    /\ time2moves_black = EmptyDict
    /\ hist_mtime_white = << >>
    /\ hist_mtime_black = << >>
    /\ out = NoOutput

\* the exception is caught and the object is returned as it is
RaiseSwallowed(e) == pc' = "ready" /\ err' = e

\* an exception leaves __init__: no object is returned
Raise(e) == pc' = "error" /\ err' = e

\* _load_pgn
LoadPgn ==
    /\ pc = "load"
    /\ pgn' = Normalize(raw)
    /\ attrs' = attrs \cup { "pgn" }
    /\ pc' = "time_ctrl"
    /\ UNCHANGED << input, raw, err, secs_start, secs_incr, hist_clock_white,
                    hist_clock_black, num_moves_white, num_moves_black, move_id, start,
                    visited, time2moves_white, time2moves_black, hist_mtime_white,
                    hist_mtime_black, out >>

\* the two names bound the other way round
TimeCtrlOfSwapped(left, right) ==
    [ok |-> TRUE, secs_start |-> right, secs_incr |-> left, err |-> ""]

\* self.secs_start, self.secs_incr = left, right
TimeCtrlOf(left, right) ==
    [ok |-> TRUE, secs_start |-> left, secs_incr |-> right, err |-> ""]

TimeCtrlError(e) == [ok |-> FALSE, secs_start |-> 0, secs_incr |-> 0, err |-> e]

\* the time-control text: between the start token and the next ']', quotes removed
\* (str.index raises ValueError when a token is absent)
TimeCtrlDesc(text) ==
    LET i == Find(text, TOKEN_START_TIMECTRL, 0)
        s == i + Len(TOKEN_START_TIMECTRL)
        e == IF i = -1 THEN -1 ELSE Find(text, TOKEN_END_TIMECTRL, s)
    IN  IF i = -1 \/ e = -1 THEN [ok |-> FALSE, desc |-> << >>]
        ELSE [ok |-> TRUE, desc |-> RemoveChar(Slice(text, s, e), "\"")]

\* the branch on '+': map(int, timectrl_desc.split('+')) unpacked into two names,
\* or int(timectrl_desc) and 0
ParseTimeCtrl(timectrl_desc) ==
    IF \E i \in 1..Len(timectrl_desc) : timectrl_desc[i] = "+"
    THEN LET parts == Split(timectrl_desc, "+")
             bad   == { k \in 1..Len(parts) : ~PyInt(parts[k]).ok }
         IN  IF \E k \in bad : k <= 3
             THEN TimeCtrlError("ValueError: invalid literal for int()")
             ELSE IF Len(parts) # 2
             THEN TimeCtrlError("ValueError: too many values to unpack")
             ELSE TimeCtrlOf(PyInt(parts[1]).val, PyInt(parts[2]).val)
    ELSE LET v == PyInt(timectrl_desc)
         IN  IF ~v.ok THEN TimeCtrlError("ValueError: invalid literal for int()")
             ELSE TimeCtrlOf(v.val, 0)

\* _extract_time_ctrl
ExtractTimeCtrl ==
    /\ pc = "time_ctrl"
    /\ LET d == TimeCtrlDesc(pgn)
           r == IF d.ok THEN ParseTimeCtrl(d.desc)
                ELSE TimeCtrlError("ValueError: substring not found")
       IN  IF r.ok
           THEN /\ secs_start' = r.secs_start
                /\ secs_incr' = r.secs_incr
                /\ attrs' = attrs \cup { "secs_start", "secs_incr" }
                /\ pc' = "hist_clock"
                /\ err' = err
           ELSE /\ Raise(r.err)
                /\ UNCHANGED << secs_start, secs_incr, attrs >>
    /\ UNCHANGED << input, raw, pgn, hist_clock_white, hist_clock_black,
                    num_moves_white, num_moves_black, move_id, start, visited,
                    time2moves_white, time2moves_black, hist_mtime_white,
                    hist_mtime_black, out >>

\* _extract_hist_clock up to the loop: both histories empty, move_id = 1, start = 0
ExtractHistClockBegin ==
    /\ pc = "hist_clock"
    /\ hist_clock_black' = << >>
    /\ hist_clock_white' = << >>
    /\ attrs' = attrs \cup { "hist_clock_black", "hist_clock_white" }
    /\ move_id' = 1
    /\ start' = 0
    /\ pc' = "scan"
    /\ UNCHANGED << input, raw, err, pgn, secs_start, secs_incr, num_moves_white,
                    num_moves_black, visited, time2moves_white, time2moves_black,
                    hist_mtime_white, hist_mtime_black, out >>

\* start = self.pgn.find(self.TOKEN_START_CLOCK, start)
FindClockStart(text, from) == Find(text, TOKEN_START_CLOCK, from)

\* end = self.pgn.find(self.TOKEN_END_CLOCK, start)
FindClockEnd(text, from) == Find(text, TOKEN_END_CLOCK, from)

\* the next iteration searches from the start token again
ResumeAtMarker(found, end) == found

\* start = end: where the next iteration searches from
ResumeAt(found, end) == end

\* an even move is white's
IsWhiteMoveSwapped(id) == id % 2 = 0

\* move_id % 2: an odd move is white's
IsWhiteMove(id) == id % 2 # 0

\* one iteration of the while loop of _extract_hist_clock, and, when no start
\* token is left, the two assignments after it
ScanStep ==
    /\ pc = "scan"
    /\ LET found == FindClockStart(pgn, start)
           s     == found + Len(TOKEN_START_CLOCK)
           end   == FindClockEnd(pgn, s)
           time_ == BuildTimeByClock(Slice(pgn, s, end))
       IN  IF found = -1
           THEN /\ start' = found
                /\ num_moves_black' = Len(hist_clock_black)
                /\ num_moves_white' = Len(hist_clock_white)
                /\ attrs' = attrs \cup { "num_moves_black", "num_moves_white" }
                /\ pc' = "time_per_move"
                /\ UNCHANGED << err, hist_clock_white, hist_clock_black, move_id, visited >>
           ELSE IF ~time_.ok
           THEN /\ Raise("ValueError: unrecognized clock format")
                /\ start' = s
                /\ visited' = Append(visited, found)
                /\ UNCHANGED << hist_clock_white, hist_clock_black, move_id,
                                num_moves_white, num_moves_black, attrs >>
           ELSE /\ IF IsWhiteMove(move_id)
                   THEN /\ hist_clock_white' = Append(hist_clock_white, time_.t)
                        /\ hist_clock_black' = hist_clock_black
                   ELSE /\ hist_clock_black' = Append(hist_clock_black, time_.t)
                        /\ hist_clock_white' = hist_clock_white
                /\ start' = ResumeAt(found, end)
                /\ move_id' = move_id + 1
                /\ visited' = Append(visited, found)
                /\ UNCHANGED << pc, err, num_moves_white, num_moves_black, attrs >>
    /\ UNCHANGED << input, raw, pgn, secs_start, secs_incr, time2moves_white,
                    time2moves_black, hist_mtime_white, hist_mtime_black, out >>

\* _extract_time_per_move: the four containers are created, then
\* datetime.time(hour=h, ...) raises ValueError unless h is in 0..23, then the loops
ExtractTimePerMove ==
    /\ pc = "time_per_move"
    /\ attrs' = attrs \cup { "time2moves_black", "time2moves_white",
                             "hist_mtime_black", "hist_mtime_white" }
    /\ IF ~HourInRange(secs_start \div 3600)
       THEN /\ Raise("ValueError: hour must be in 0..23")
            /\ time2moves_black' = EmptyDict
            /\ time2moves_white' = EmptyDict
            /\ hist_mtime_black' = << >>
            /\ hist_mtime_white' = << >>
       ELSE LET b == TimePerMove(hist_clock_black, secs_start, secs_incr)
                w == TimePerMove(hist_clock_white, secs_start, secs_incr)
            IN  /\ time2moves_black' = b.time2moves
                /\ hist_mtime_black' = b.hmtime
                /\ time2moves_white' = w.time2moves
                /\ hist_mtime_white' = w.hmtime
                /\ pc' = "ready"
                /\ err' = err
    /\ UNCHANGED << input, raw, pgn, secs_start, secs_incr, hist_clock_white,
                    hist_clock_black, num_moves_white, num_moves_black, move_id, start,
                    visited, out >>

---------------------------------------------------------------------------
(* The print operations, callable once the constructor has returned.  `out` *)
(* holds what the operation printed, line by line, and the exception that   *)
(* ended it, if any.                                                        *)

Frame == UNCHANGED << input, raw, pc, err, attrs, pgn, secs_start, secs_incr,
                      hist_clock_white, hist_clock_black, num_moves_white,
                      num_moves_black, move_id, start, visited, time2moves_white,
                      time2moves_black, hist_mtime_white, hist_mtime_black >>

\* x < y for two float numbers of seconds
Less(x, y) == x.sec < y.sec \/ (x.sec = y.sec /\ x.us < y.us)

RECURSIVE InsertByWorst(_, _)
\* item placed behind every element that is not smaller: equal times keep their order
InsertByWorst(sorted, item) ==
    IF sorted = << >> THEN << item >>
    ELSE IF Less(Head(sorted)[2], item[2]) THEN << item >> \o sorted
    ELSE << Head(sorted) >> \o InsertByWorst(Tail(sorted), item)

RECURSIVE SortedByWorstFrom(_, _, _)
SortedByWorstFrom(hist, k, acc) ==
    IF k > Len(hist) THEN acc
    ELSE SortedByWorstFrom(hist, k + 1, InsertByWorst(acc, << k, hist[k] >>))

\* sorted(enumerate(hist, 1), key=lambda i_t: i_t[1], reverse=True): a new list
SortedByWorst(hist) == SortedByWorstFrom(hist, 1, << >>)

RECURSIVE SortedKeysDesc(_)
\* the keys of sorted(d_view, key=lambda kv: kv[0], reverse=True)
SortedKeysDesc(keys) ==
    IF keys = {} THEN << >>
    ELSE << Max(keys) >> \o SortedKeysDesc(keys \ { Max(keys) })

\* print_timectrl_desc
PrintTimectrlDesc ==
    /\ pc = "ready"
    /\ out' = [op |-> "print_timectrl_desc", white |-> FALSE, exc |-> "",
               lines |-> << [start |-> FmtTimePerMove(Whole(secs_start)),
                             incr  |-> FmtTimePerMove(Whole(secs_incr))] >>]
    /\ Frame

\* _print_hist(desc, hist) with str as fmt_func: the count, then a line per record
PrintHistClock(white) ==
    /\ pc = "ready"
    /\ LET hist == IF white THEN hist_clock_white ELSE hist_clock_black
       IN  out' = [op |-> "print_hist_clock", white |-> white, exc |-> "",
                   lines |-> << [records |-> Len(hist)] >>
                             \o [ i \in 1..Len(hist) |->
                                    [move |-> i, text |-> TimeStr(hist[i])] ]]
    /\ Frame

\* the history sorted where it is, hist.sort(reverse=True), and then printed
PrintHistTimePerMoveInPlace(white, sort_by_worst) ==
    /\ pc = "ready"
    /\ LET hist   == IF white THEN hist_mtime_white ELSE hist_mtime_black
           sorted == SortedByWorst(hist)
           after  == IF sort_by_worst THEN [ i \in 1..Len(sorted) |-> sorted[i][2] ]
                     ELSE hist
       IN  /\ out' = [op |-> "print_hist_time_per_move", white |-> white, exc |-> "",
                      lines |-> << [records |-> Len(hist)] >>
                                \o [ i \in 1..Len(after) |->
                                       [move |-> i, text |-> FmtTimePerMove(after[i])] ]]
           /\ hist_mtime_white' = IF white THEN after ELSE hist_mtime_white
           /\ hist_mtime_black' = IF white THEN hist_mtime_black ELSE after
    /\ UNCHANGED << input, raw, pc, err, attrs, pgn, secs_start, secs_incr,
                    hist_clock_white, hist_clock_black, num_moves_white,
                    num_moves_black, move_id, start, visited, time2moves_white,
                    time2moves_black >>

\* print_*_hist_time_per_move(sort_by_worst)
PrintHistTimePerMove(white, sort_by_worst) ==
    /\ pc = "ready"
    /\ LET hist   == IF white THEN hist_mtime_white ELSE hist_mtime_black
           sorted == SortedByWorst(hist)
       IN  out' = [op |-> IF sort_by_worst THEN "print_hist_time_per_move sorted"
                          ELSE "print_hist_time_per_move",
                   white |-> white, exc |-> "",
                   lines |-> << [records |-> Len(hist)] >>
                             \o (IF sort_by_worst
                                 THEN [ i \in 1..Len(sorted) |->
                                          [move |-> sorted[i][1],
                                           text |-> FmtTimePerMove(sorted[i][2])] ]
                                 ELSE [ i \in 1..Len(hist) |->
                                          [move |-> i, text |-> FmtTimePerMove(hist[i])] ])]
    /\ Frame

RECURSIVE BucketLoop(_, _, _, _, _)
\* the for loop of _print_moves_by_time over the sorted items, from item k on
BucketLoop(time2moves, keys, k, approx_rec_time, acc) ==
    IF k > Len(keys) THEN acc
    ELSE LET time_          == keys[k]
             moves          == time2moves[time_]
             num_moves_time == Len(moves)
         IN  IF approx_rec_time = 0
             THEN [acc EXCEPT !.exc = "ZeroDivisionError"]
             ELSE BucketLoop(time2moves, keys, k + 1, approx_rec_time,
                    [exc        |-> "",
                     spent_time |-> acc.spent_time + (num_moves_time * time_),
                     lines      |-> Append(acc.lines,
                                      [num_moves_time |-> num_moves_time,
                                       time_    |-> time_,
                                       duration |-> FmtTimePerMove(Whole(time_)),
                                       perc     |-> [num |-> time_ * 100,
                                                     den |-> approx_rec_time],
                                       moves    |-> moves])])

\* _print_moves_by_time(white): the heading, a line per bucket by worst time, the
\* total.  perc holds the operands of time_/approx_rec_time * 100, which the line
\* shows rounded to two decimals; the division raises when approx_rec_time is 0.
MovesByTimeReport(white) ==
    LET num_moves_match == IF white THEN num_moves_white ELSE num_moves_black
        time2moves      == IF white THEN time2moves_white ELSE time2moves_black
        approx_rec_time == secs_start + (num_moves_match * secs_incr)
        heading         == [num_moves_match |-> num_moves_match,
                            received |-> FmtTimePerMove(Whole(approx_rec_time))]
        loop            == BucketLoop(time2moves, SortedKeysDesc(DOMAIN time2moves), 1,
                                      approx_rec_time,
                                      [exc |-> "", spent_time |-> 0, lines |-> << >>])
    IN  [op |-> "print_moves_by_time", white |-> white, exc |-> loop.exc,
         lines |-> << heading >> \o loop.lines
                   \o (IF loop.exc = "" 
                       THEN << [spent_time |-> loop.spent_time,
                                spent |-> FmtTimePerMove(Whole(loop.spent_time))] >>
                       ELSE << >>)]

\* print_white_moves_by_time, print_black_moves_by_time
PrintMovesByTime(white) ==
    /\ pc = "ready"
    /\ out' = MovesByTimeReport(white)
    /\ Frame

Next ==
    \/ LoadPgn
    \/ ExtractTimeCtrl
    \/ ExtractHistClockBegin
    \/ ScanStep
    \/ ExtractTimePerMove
    \/ PrintTimectrlDesc
    \/ \E white \in BOOLEAN : PrintHistClock(white)
    \/ \E white \in BOOLEAN, sort_by_worst \in BOOLEAN :
         PrintHistTimePerMove(white, sort_by_worst)
    \/ \E white \in BOOLEAN : PrintMovesByTime(white)

Spec == Init /\ [][Next]_vars

---------------------------------------------------------------------------
(* Properties. *)

TimeCtrlRan == pc \notin { "load", "time_ctrl" }

TimeCtrlResolved == "secs_start" \in attrs

HistClockRan == "num_moves_white" \in attrs

TimePerMoveRan == "hist_mtime_white" \in attrs

\* a reading as seconds of the day
SecOfDay(t) == (t.hour * 3600) + (t.minute * 60) + t.second

\* e = (baseSec + baseUs/10^6 + secs_incr) - r, in seconds and microseconds
ElapsedIs(e, baseSec, baseUs, r) ==
    \E carry \in { 0, 1 } :
        /\ e.sec = ((baseSec + secs_incr) - SecOfDay(r)) - carry
        /\ e.us = (baseUs - r.microsecond) + (carry * 1000000)
        /\ e.us \in 0..999999

\* elapsed_1 = (secs_start + secs_incr) - r_1, elapsed_k = (r_(k-1) + secs_incr) - r_k
ElapsedFormula(hclock, hmtime) ==
    /\ Len(hmtime) = Len(hclock)
    /\ \A k \in 1..Len(hclock) :
         ElapsedIs(hmtime[k],
                   IF k = 1 THEN secs_start ELSE SecOfDay(hclock[k - 1]),
                   IF k = 1 THEN 0 ELSE hclock[k - 1].microsecond,
                   hclock[k])

\* C1: for every time control with secs_start >= 0 and secs_incr >= 0 and every
\* history of readings, _extract_time_per_move records, for each side and in move
\* order, elapsed_1 = (secs_start + secs_incr) - r_1 and
\* elapsed_k = (r_(k-1) + secs_incr) - r_k, unclamped.  (Stated for a game with at
\* least one reading.)
C1_ElapsedForEveryTimeControl ==
    (TimePerMoveRan /\ secs_start >= 0 /\ secs_incr >= 0 /\ hist_clock_white # << >>) =>
        /\ pc = "ready"
        /\ ElapsedFormula(hist_clock_white, hist_mtime_white)
        /\ ElapsedFormula(hist_clock_black, hist_mtime_black)

\* C1, where it holds: whenever the constructor returns, the recorded move times are
\* those of the formula (negative ones included); 180+2 and a first reading of
\* 0:02:59 give 3 seconds for move 1.
ElapsedWhenConstructed ==
    pc = "ready" =>
        /\ ElapsedFormula(hist_clock_white, hist_mtime_white)
        /\ ElapsedFormula(hist_clock_black, hist_mtime_black)
        /\ (/\ secs_start = 180 /\ secs_incr = 2 /\ hist_clock_white # << >>
            /\ hist_clock_white[1] = Reading(0, 2, 59, 0))
           => hist_mtime_white[1] = [sec |-> 3, us |-> 0]

\* the text holds exactly the annotations input.blocks, each well formed
AllWellFormed ==
    /\ ~input.tail.present
    /\ \A k \in 1..Len(input.blocks) : input.blocks[k].wf

OddPositions(seq) == [ i \in 1..((Len(seq) + 1) \div 2) |-> seq[(2 * i) - 1] ]

EvenPositions(seq) == [ i \in 1..(Len(seq) \div 2) |-> seq[2 * i] ]

InputReadings == [ k \in 1..Len(input.blocks) |-> input.blocks[k].t ]

\* C2: after _extract_hist_clock on a text of N well-formed annotations, white holds
\* the readings at odd positions and black those at even positions, in encounter
\* order: ceil(N/2) and floor(N/2) entries, counts at most one apart, and
\* num_moves_white, num_moves_black are the lengths of the histories.
C2_SideAlternation ==
    (AllWellFormed /\ TimeCtrlResolved) =>
        /\ err # "ValueError: unrecognized clock format"
        /\ HistClockRan =>
            /\ hist_clock_white = OddPositions(InputReadings)
            /\ hist_clock_black = EvenPositions(InputReadings)
            /\ num_moves_white = Len(hist_clock_white)
            /\ num_moves_black = Len(hist_clock_black)
            /\ num_moves_white - num_moves_black \in { 0, 1 }
            /\ num_moves_white + num_moves_black = Len(input.blocks)

C2_Witness ==
    /\ AllWellFormed /\ HistClockRan
    /\ num_moves_white = 2 /\ num_moves_black = 1
    /\ hist_clock_white[1] # hist_clock_black[1]
    /\ hist_clock_white[2] # hist_clock_black[1]

\* key is the ceiling of x: key - 1 < x <= key
IsCeilingOf(key, x) == Less(Whole(key - 1), x) /\ ~Less(Whole(key), x)

Occurrences(seq, x) == Cardinality({ j \in 1..Len(seq) : seq[j] = x })

BucketsPartition(time2moves, hmtime) ==
    /\ \A i \in 1..Len(hmtime) :
         \E key \in DOMAIN time2moves :
            /\ IsCeilingOf(key, hmtime[i])
            /\ Occurrences(time2moves[key], i) = 1
            /\ \A other \in (DOMAIN time2moves) \ { key } :
                 Occurrences(time2moves[other], i) = 0
    /\ \A key \in DOMAIN time2moves :
         /\ time2moves[key] # << >>
         /\ \A j \in 1..Len(time2moves[key]) : time2moves[key][j] \in 1..Len(hmtime)
         /\ \A j \in 1..(Len(time2moves[key]) - 1) :
              time2moves[key][j] < time2moves[key][j + 1]

\* C3: after _extract_time_per_move the buckets of each side partition its move
\* indices 1..count: every index is in exactly one bucket, the one whose key is the
\* ceiling of the move's elapsed seconds, once; no bucket is empty; the indices of a
\* bucket ascend.
C3_BucketsPartition ==
    pc = "ready" =>
        /\ Len(hist_mtime_white) = num_moves_white
        /\ Len(hist_mtime_black) = num_moves_black
        /\ BucketsPartition(time2moves_white, hist_mtime_white)
        /\ BucketsPartition(time2moves_black, hist_mtime_black)

C3_Witness ==
    /\ pc = "ready"
    /\ \E key \in DOMAIN time2moves_white : time2moves_white[key] = << 1, 2 >>
    /\ \E i \in 1..Len(hist_mtime_white) : hist_mtime_white[i].us # 0
    /\ Cardinality(DOMAIN time2moves_black) = 2


\* the file holds one closed tag [TimeControl "<input.tc.desc>"]
TimeCtrlTagged == input.tc.present /\ input.tc.closed

RECURSIVE StripLeadingZeros(_)
StripLeadingZeros(s) ==
    IF Len(s) > 1 /\ Head(s) = "0" THEN StripLeadingZeros(Tail(s)) ELSE s

\* secs_start and secs_incr written again as "S+I" parse to themselves
RoundTrips ==
    ParseTimeCtrl(DecStr(secs_start) \o << "+" >> \o DecStr(secs_incr))
      = [ok |-> TRUE, secs_start |-> secs_start, secs_incr |-> secs_incr, err |-> ""]

\* C4: a time-control text "S+I" of two runs of digits sets secs_start = S and
\* secs_incr = I; a text "S" with no '+' sets secs_start = S and secs_incr = 0 ("600"
\* gives 600 and 0); written again as "S+I" the two integers parse to themselves.
C4_TimeCtrlParse ==
    (TimeCtrlTagged /\ TimeCtrlRan) =>
        LET d == input.tc.desc
        IN  /\ \A i \in 1..Len(d) :
                 (/\ d[i] = "+"
                  /\ IsDigits(SubSeq(d, 1, i - 1))
                  /\ IsDigits(SubSeq(d, i + 1, Len(d))))
                 => /\ TimeCtrlResolved
                    /\ DecStr(secs_start) = StripLeadingZeros(SubSeq(d, 1, i - 1))
                    /\ DecStr(secs_incr) = StripLeadingZeros(SubSeq(d, i + 1, Len(d)))
                    /\ RoundTrips
            /\ IsDigits(d)
                 => /\ TimeCtrlResolved
                    /\ DecStr(secs_start) = StripLeadingZeros(d)
                    /\ secs_incr = 0
                    /\ RoundTrips
            /\ d = << "6", "0", "0" >> => (secs_start = 600 /\ secs_incr = 0)

C4_Witness ==
    /\ TimeCtrlTagged /\ TimeCtrlResolved
    /\ input.tc.desc = << "1", "6", "+", "1" >>
    /\ secs_start = 16 /\ secs_incr = 1

\* C5: a time-control text whose start or increment is not a non-negative integer is
\* rejected, and no secs_start or secs_incr below zero is ever stored.
C5_NegativeTimeControlRejected ==
    TimeCtrlResolved => (secs_start >= 0 /\ secs_incr >= 0)

\* C6: a start token '{[%clk ' that no end token ']}' follows ends the scan in an
\* error, and no reading is appended for it to either history.
C6_TruncatedBlockIsFatal ==
    (input.tail.present /\ TimeCtrlResolved) =>
        /\ ~HistClockRan
        /\ Len(hist_clock_white) + Len(hist_clock_black) <= Len(input.blocks)

AllAttrs == { "pgn", "secs_start", "secs_incr", "hist_clock_white", "hist_clock_black",
              "num_moves_white", "num_moves_black", "time2moves_white",
              "time2moves_black", "hist_mtime_white", "hist_mtime_black" }

NothingDerived ==
    /\ hist_mtime_white = << >> /\ hist_mtime_black = << >>
    /\ DOMAIN time2moves_white = {} /\ DOMAIN time2moves_black = {}

\* C7: the constructor runs load, time control, clock histories, move times in this
\* order; an error at a step ends it there, no later step runs, and no object with
\* partial results is returned: no print operation ever runs on one.  No move time
\* exists before the time control is resolved.
C7_ConstructionOrder ==
    /\ pc = "ready" => (attrs = AllAttrs /\ err = "")
    /\ pc = "error" => (err # "" /\ out.op = "")
    /\ out.op # "" => pc = "ready"
    /\ TimePerMoveRan => HistClockRan
    /\ HistClockRan => "hist_clock_white" \in attrs
    /\ "hist_clock_white" \in attrs => TimeCtrlResolved
    /\ TimeCtrlResolved => "pgn" \in attrs
    /\ ~NothingDerived => (TimeCtrlResolved /\ TimePerMoveRan)
    /\ (~input.tc.present /\ TimeCtrlRan) => (pc = "error" /\ attrs = { "pgn" })
    /\ err \in { "ValueError: substring not found",
                 "ValueError: invalid literal for int()",
                 "ValueError: too many values to unpack" }
         => (pc = "error" /\ attrs = { "pgn" } /\ NothingDerived)
    /\ err = "ValueError: unrecognized clock format"
         => (pc = "error" /\ ~HistClockRan /\ NothingDerived)
    /\ err = "ValueError: hour must be in 0..23" => (pc = "error" /\ NothingDerived)

C7_Witness ==
    /\ ~input.tc.present
    /\ input.blocks # << >>
    /\ pc = "error" /\ err = "ValueError: substring not found"

RECURSIVE SpentTime(_, _)
\* the sum over the buckets keys of key * number of moves in the bucket
SpentTime(time2moves, keys) ==
    IF keys = {} THEN 0
    ELSE LET key == CHOOSE k \in keys : TRUE
         IN  (key * Len(time2moves[key])) + SpentTime(time2moves, keys \ { key })

\* the report printed by _print_moves_by_time: a heading, the buckets by strictly
\* descending key, each once, and the total
WorstTimeFirst(report, time2moves) ==
    LET n == Len(report.lines)
    IN  /\ n = Cardinality(DOMAIN time2moves) + 2
        /\ \A j \in 2..(n - 1) :
             /\ report.lines[j].time_ \in DOMAIN time2moves
             /\ report.lines[j].moves = time2moves[report.lines[j].time_]
             /\ report.lines[j].num_moves_time = Len(report.lines[j].moves)
        /\ \A j \in 2..(n - 2) : report.lines[j].time_ > report.lines[j + 1].time_
        /\ report.lines[n].spent_time = SpentTime(time2moves, DOMAIN time2moves)

ReportedSide == IF out.white THEN time2moves_white ELSE time2moves_black

\* a time control and move times of the reported side that are not negative
ReportedSideNotNegative ==
    LET hist == IF out.white THEN hist_mtime_white ELSE hist_mtime_black
    IN  /\ secs_start >= 0 /\ secs_incr >= 0
        /\ \A i \in 1..Len(hist) : ~Less(hist[i], Whole(0))

\* C8: for every side _print_moves_by_time reports the buckets in strictly descending
\* order of key, each bucket once, and a total equal to the sum over the buckets of
\* key * number of moves.  (Stated for games without a negative time.)
C8_WorstTimeFirstReport ==
    (out.op = "print_moves_by_time" /\ ReportedSideNotNegative) =>
        (out.exc = "" /\ WorstTimeFirst(out, ReportedSide))

\* C8, where it holds: a report that is printed to its end is worst time first and
\* totals the bucket keys.
WorstTimeFirstWhenPrinted ==
    (out.op = "print_moves_by_time" /\ out.exc = "") => WorstTimeFirst(out, ReportedSide)

\* C9: once the constructor has returned, no print operation changes secs_start,
\* secs_incr, a clock history, a move-time history, a move count or a bucket mapping.
C9_PrintsLeaveSessionUnchanged ==
    [][ pc = "ready" =>
          /\ pc' = "ready"
          /\ UNCHANGED << secs_start, secs_incr, hist_clock_white, hist_clock_black,
                          hist_mtime_white, hist_mtime_black, num_moves_white,
                          num_moves_black, time2moves_white, time2moves_black,
                          attrs, pgn >> ]_vars

C9_Witness ==
    /\ pc = "ready"
    /\ out.op = "print_hist_time_per_move sorted" /\ out.white
    /\ Len(hist_mtime_white) = 2
    /\ Less(hist_mtime_white[1], hist_mtime_white[2])
    /\ out.lines[2].move = 2

\* the position a search from i starts at: str.find counts a negative i from the end
SearchFrom(i) == IF i < 0 THEN (IF Len(pgn) + i < 0 THEN 0 ELSE Len(pgn) + i) ELSE i

\* C10: the scan loop of _extract_hist_clock terminates: every iteration that goes on
\* moves the search position forward (so at most len(pgn) iterations run), with the
\* end token found the new start is beyond the old one, no start token is visited
\* twice, and after an iteration that found no end token the next one ends the loop.
C10_ScanAdvances ==
    [][ (pc = "scan" /\ pc' = "scan") =>
          /\ SearchFrom(start') > SearchFrom(start)
          /\ SearchFrom(start') <= Len(pgn)
          /\ start' >= 0 => start' > start
          /\ Len(visited') = Len(visited) + 1
          /\ \A j \in 1..Len(visited) : visited[j] < visited'[Len(visited')]
          /\ start' < 0 => FindClockStart(pgn, start') = -1 ]_vars

C10_Witness ==
    /\ pc = "scan"
    /\ start = -1
    /\ Len(visited) = 3
    /\ input.tail.present

=============================================================================
